---- MODULE Spec2Model ----
(***************************************************************************)
(* A model of the action-log backend: ActionLogViewSet (views.py) and the  *)
(* serializers it uses (serializers.py).  The persisted tables are the     *)
(* model's state; every request handler is one action that runs the whole  *)
(* handler, from get_object() to the Response it returns.                  *)
(*                                                                         *)
(* Scalar columns of ActionLog that no handler branches on (title,         *)
(* description, priority, due_date, created_by, created_at, updated_at)    *)
(* are not kept in the state; their presence in a payload is kept where    *)
(* validation depends on it (has_required, due_date).  DELETE is not       *)
(* modelled.                                                               *)
(***************************************************************************)
EXTENDS Integers, Sequences, FiniteSets, TLC

VARIABLES
    logs,        \* table ActionLog: row i has primary key i
    comments,    \* table ActionLogComment: row i has primary key i
    history,     \* table ActionLogAssignmentHistory: row i has primary key i
    now,         \* timezone.now()
    approvers,   \* the external approval policy: who may approve or reject
    response,    \* the last request, summarised, and the Response returned
    reassigned   \* per log: update requests carrying assigned_to handled so far

vars == <<logs, comments, history, now, approvers, response, reassigned>>

----------------------------------------------------------------------------
(* Bounds of the model. *)

MaxLogs == 2
MaxRows == 2
MaxTime == 1

----------------------------------------------------------------------------
(* Values. *)

None == "None"
NoTime == -1
NoParent == 0

\* A text that a serializer CharField converts is a sequence of characters;
\* a null text is the one-element sequence <<None>>.
NoText == <<None>>
Blank == " "

Depts == {"d1", "d2"}
BadDept == "d9"

Users == {"staff_a", "staff_b", "chief", "root"}
BadUser == "ghost"

role(user) ==
    CASE user = "chief" -> "commissioner"
      [] user = "root" -> "super_admin"
      [] OTHER -> "officer"

department(user) == IF user \in {"staff_a", "chief"} THEN "d1" ELSE "d2"

Statuses == {"open", "approved", "rejected"}

----------------------------------------------------------------------------
(* Pure helpers. *)

\* Python truthiness of a request value that is None or a string.
Truthy(text) == text \notin {None, ""}

RECURSIVE LStrip(_)
LStrip(s) == IF s # <<>> /\ Head(s) = Blank THEN LStrip(Tail(s)) ELSE s

RECURSIVE RStrip(_)
RStrip(s) ==
    IF s # <<>> /\ s[Len(s)] = Blank THEN RStrip(SubSeq(s, 1, Len(s) - 1)) ELSE s

\* str.strip(), which CharField applies to its input (trim_whitespace).
Strip(s) == RStrip(LStrip(s))

CharField_no_trim(data) == data

\* serializers.CharField(required=False, allow_blank=True).to_internal_value
CharField(data) == Strip(data)

LogIds == 1..Len(logs)

\* Room for one more comment or history row (the model's bound on both tables).
RowsLeft == Len(comments) + Len(history) < MaxRows

get_queryset_unscoped(user) == LogIds

\* ActionLogViewSet.get_queryset: every log for an elevated role, else the
\* logs of the requester's own department.
get_queryset(user) ==
    IF role(user) \in {"commissioner", "super_admin"}
    THEN LogIds
    ELSE {i \in LogIds : logs[i].department = department(user)}

\* The Response, with the parts of the request the properties speak about.
Resp(op, user, pk, code) ==
    [op |-> op, user |-> user, pk |-> pk, code |-> code,
     items |-> {}, rows |-> <<>>, errors |-> {}, named |-> None,
     had_assigned |-> FALSE, comment |-> None,
     department_id |-> None, well_formed |-> FALSE, reason |-> NoText,
     has_parent |-> FALSE, parent_id |-> NoParent]

----------------------------------------------------------------------------
(* State after construction: empty tables. *)

InitTables ==
    /\ logs = <<>>
    /\ comments = <<>>
    /\ history = <<>>
    /\ now = 0
    /\ response = Resp("none", None, 0, 0)
    /\ reassigned = <<>>

Init ==
    /\ InitTables
    /\ approvers = {u \in Users : role(u) \in {"commissioner", "super_admin"}}

Tick ==
    /\ now < MaxTime
    /\ now' = now + 1
    /\ UNCHANGED <<logs, comments, history, approvers, response, reassigned>>

----------------------------------------------------------------------------
(* POST /action-logs/ : CreateModelMixin.create, perform_create,            *)
(* ActionLogSerializer.validate and ActionLogSerializer.create.             *)

\* Field-level validation of the serializer: the fields in error.
field_errors(p, partial) ==
    (IF (~partial /\ ~p.has_assigned) \/ (p.has_assigned /\ ~(p.assigned_to \subseteq Users))
     THEN {"assigned_to"} ELSE {})
    \cup (IF ~partial /\ p.department_id = None THEN {"department_id"} ELSE {})
    \cup (IF ~partial /\ ~p.has_required THEN {"title"} ELSE {})

\* ActionLogSerializer.validate: the due date must not be in the past.
validate(p) == IF p.due_date = "past" THEN {"due_date"} ELSE {}

department_exists_any(department_id) == TRUE

\* Department.objects.get(id=department_id) finds a row.
department_exists(department_id) == department_id \in Depts

Create(user, p) ==
    LET ferrs == field_errors(p, FALSE)
        req == [Resp("create", user, 0, 400) EXCEPT
                    !.department_id = p.department_id,
                    !.well_formed = (ferrs = {} /\ validate(p) = {})]
    IN
    IF ferrs # {}
    THEN /\ response' = [req EXCEPT !.errors = ferrs]
         /\ UNCHANGED <<logs, comments, history, now, approvers, reassigned>>
    ELSE IF validate(p) # {}
    THEN /\ response' = [req EXCEPT !.errors = validate(p)]
         /\ UNCHANGED <<logs, comments, history, now, approvers, reassigned>>
    ELSE IF ~department_exists(p.department_id)
    THEN \* Department.DoesNotExist
         /\ response' = [req EXCEPT !.errors = {"department_id"},
                                    !.named = p.department_id]
         /\ UNCHANGED <<logs, comments, history, now, approvers, reassigned>>
    ELSE /\ Len(logs) < MaxLogs
         /\ logs' = Append(logs,
                [department |-> p.department_id,
                 status |-> IF p.status = None THEN "open" ELSE p.status,
                 approved_by |-> None, approved_at |-> NoTime,
                 rejection_reason |-> NoText,
                 assigned_to |-> p.assigned_to])
         /\ reassigned' = Append(reassigned, 0)
         /\ response' = [req EXCEPT !.pk = Len(logs) + 1, !.code = 201]
         /\ UNCHANGED <<comments, history, now, approvers>>

----------------------------------------------------------------------------
(* GET /action-logs/ and GET /action-logs/{pk}/ *)

List(user) ==
    /\ response' = [Resp("list", user, 0, 200) EXCEPT !.items = get_queryset(user)]
    /\ UNCHANGED <<logs, comments, history, now, approvers, reassigned>>

Retrieve(user, pk) ==
    /\ response' = IF pk \in get_queryset(user)
                   THEN [Resp("retrieve", user, pk, 200) EXCEPT !.items = {pk}]
                   ELSE Resp("retrieve", user, pk, 404)
    /\ UNCHANGED <<logs, comments, history, now, approvers, reassigned>>

----------------------------------------------------------------------------
(* PUT/PATCH /action-logs/{pk}/ : ActionLogViewSet.update around           *)
(* UpdateModelMixin.update (partial_update calls update with partial=True). *)

\* 'assigned_to' in request.data
has_assigned_to(p) == p.has_assigned

comment_side_effect_always(p) == Truthy(p.comment)

comment_side_effect_inverted(p) == Truthy(p.comment) /\ has_assigned_to(p)

\* comment_text and 'assigned_to' not in request.data
comment_side_effect(p) == Truthy(p.comment) /\ ~has_assigned_to(p)

\* ModelSerializer.update: the validated fields are written to the row.
updated_log(log, p) ==
    [log EXCEPT
        !.department = IF p.department_id = None THEN @ ELSE p.department_id,
        !.status = IF p.status = None THEN @ ELSE p.status,
        !.rejection_reason = IF p.rejection_reason = NoText THEN @
                             ELSE CharField(p.rejection_reason),
        !.assigned_to = IF p.has_assigned THEN p.assigned_to ELSE @]

\* ActionLogViewSet.update.  The view opens no transaction, and Django's
\* default is autocommit, so a row inserted before an exception stays.
Update(user, pk, p, partial) ==
    LET req == [Resp("update", user, pk, 200) EXCEPT
                    !.had_assigned = p.has_assigned, !.comment = p.comment]
        record == [action_log |-> pk, assigned_by |-> user, comment |-> p.comment,
                   assigned_at |-> now, assigned_to |-> {}]
        counted == IF p.has_assigned THEN [reassigned EXCEPT ![pk] = @ + 1]
                   ELSE reassigned
        errs == IF field_errors(p, partial) # {} THEN field_errors(p, partial)
                ELSE validate(p)
    IN
    IF pk \notin get_queryset(user)
    THEN \* get_object() raises Http404
         /\ response' = [req EXCEPT !.code = 404]
         /\ UNCHANGED <<logs, comments, history, now, approvers, reassigned>>
    ELSE IF has_assigned_to(p) /\ ~(p.assigned_to \subseteq Users)
    THEN \* the history row is inserted; assigned_to.set() of an unknown user
         \* id raises IntegrityError, which leaves the view
         /\ RowsLeft
         /\ history' = Append(history, record)
         /\ reassigned' = counted
         /\ response' = [req EXCEPT !.code = 500]
         /\ UNCHANGED <<logs, comments, now, approvers>>
    ELSE /\ has_assigned_to(p) => RowsLeft
         /\ history' = IF has_assigned_to(p)
                       THEN Append(history, [record EXCEPT !.assigned_to = p.assigned_to])
                       ELSE history
         /\ reassigned' = counted
         /\ IF errs # {}
            THEN \* serializer.is_valid(raise_exception=True)
                 /\ response' = [req EXCEPT !.code = 400, !.errors = errs]
                 /\ UNCHANGED <<logs, comments, now, approvers>>
            ELSE /\ logs' = [logs EXCEPT ![pk] = updated_log(@, p)]
                 /\ comment_side_effect(p) => RowsLeft
                 /\ comments' = IF comment_side_effect(p)
                                THEN Append(comments,
                                        [action_log |-> pk, user |-> user,
                                         comment |-> p.comment,
                                         parent_comment |-> NoParent])
                                ELSE comments
                 /\ response' = req
                 /\ UNCHANGED <<now, approvers>>

----------------------------------------------------------------------------
(* GET/POST /action-logs/{pk}/comments/ : ActionLogViewSet.comments.        *)
(* get_object() runs inside the handler's try block, so its Http404 is     *)
(* caught by "except Exception" and answered with 500.                     *)

parent_lookup_any_log(pk, parent_id) == parent_id \in 1..Len(comments)

\* ActionLogComment.objects.get(id=parent_comment_id, action_log=action_log)
\* finds a row.
parent_lookup(pk, parent_id) ==
    parent_id \in 1..Len(comments) /\ comments[parent_id].action_log = pk

CommentsPost(user, pk, text, has_parent, parent_id) ==
    LET req == [Resp("comments_post", user, pk, 201) EXCEPT
                    !.comment = text, !.has_parent = has_parent,
                    !.parent_id = parent_id]
        \* request.data.get('parent_comment_id'): None when the key is absent
        truthy_parent == has_parent /\ parent_id # 0
    IN
    IF pk \notin get_queryset(user)
    THEN /\ response' = [req EXCEPT !.code = 500]
         /\ UNCHANGED <<logs, comments, history, now, approvers, reassigned>>
    ELSE IF ~Truthy(text)
    THEN /\ response' = [req EXCEPT !.code = 400]
         /\ UNCHANGED <<logs, comments, history, now, approvers, reassigned>>
    ELSE IF truthy_parent /\ ~parent_lookup(pk, parent_id)
    THEN \* ActionLogComment.DoesNotExist
         /\ response' = [req EXCEPT !.code = 404]
         /\ UNCHANGED <<logs, comments, history, now, approvers, reassigned>>
    ELSE /\ RowsLeft
         /\ comments' = Append(comments,
                [action_log |-> pk, user |-> user, comment |-> text,
                 parent_comment |-> IF truthy_parent THEN parent_id ELSE NoParent])
         /\ response' = req
         /\ UNCHANGED <<logs, history, now, approvers, reassigned>>

\* The ids format_comment reaches from comment c: c and, recursively, its replies.
RECURSIVE thread(_)
thread(c) ==
    {c} \cup UNION {thread(r) : r \in {i \in 1..Len(comments) :
                                        comments[i].parent_comment = c}}

CommentsGet(user, pk) ==
    LET top == {i \in 1..Len(comments) :
                    comments[i].action_log = pk /\ comments[i].parent_comment = NoParent}
    IN
    /\ response' = IF pk \notin get_queryset(user)
                   THEN Resp("comments_get", user, pk, 500)
                   ELSE [Resp("comments_get", user, pk, 200) EXCEPT
                            !.items = UNION {thread(c) : c \in top}]
    /\ UNCHANGED <<logs, comments, history, now, approvers, reassigned>>

----------------------------------------------------------------------------
(* The approval policy and the entity's transitions.  users.permissions    *)
(* and ActionLog.can_approve / approve / reject are not part of the files  *)
(* modelled here; they follow the specification's description.             *)

can_approve_action_log(user, log) == user \in approvers

can_approve(log, user) == user \in approvers

\* ActionLog.approve(user) raises: no permission, or already decided.
approve_raises(log, user) ==
    ~can_approve(log, user) \/ log.status \in {"approved", "rejected"}

\* ActionLog.reject(user, reason) raises: no permission, or already decided.
reject_raises(log, user) ==
    ~can_approve(log, user) \/ log.status \in {"approved", "rejected"}

approved_log(log, user) ==
    [log EXCEPT !.status = "approved", !.approved_by = user, !.approved_at = now]

rejected_log(log, user, reason) ==
    [log EXCEPT !.status = "rejected", !.rejection_reason = reason]

----------------------------------------------------------------------------
(* POST /action-logs/{pk}/approve/ and /reject/ *)

approve_denied_never(user, log) == FALSE

\* not can_approve_action_log(request.user, action_log)
approve_denied(user, log) == ~can_approve_action_log(user, log)

Approve(user, pk) ==
    LET req == Resp("approve", user, pk, 200) IN
    IF pk \notin get_queryset(user)
    THEN /\ response' = [req EXCEPT !.code = 404]
         /\ UNCHANGED <<logs, comments, history, now, approvers, reassigned>>
    ELSE IF approve_denied(user, logs[pk])
    THEN /\ response' = [req EXCEPT !.code = 403]
         /\ UNCHANGED <<logs, comments, history, now, approvers, reassigned>>
    ELSE IF approve_raises(logs[pk], user)
    THEN /\ response' = [req EXCEPT !.code = 400]
         /\ UNCHANGED <<logs, comments, history, now, approvers, reassigned>>
    ELSE /\ logs' = [logs EXCEPT ![pk] = approved_log(@, user)]
         /\ response' = req
         /\ UNCHANGED <<comments, history, now, approvers, reassigned>>

\* ActionLogApprovalSerializer.validate passes.
approval_serializer_valid(user, log) == can_approve(log, user)

\* serializer.validated_data.get('rejection_reason', '')
validated_reason(reason) == IF reason = NoText THEN <<>> ELSE CharField(reason)

Reject(user, pk, reason) ==
    LET req == [Resp("reject", user, pk, 200) EXCEPT !.reason = reason] IN
    IF pk \notin get_queryset(user)
    THEN /\ response' = [req EXCEPT !.code = 404]
         /\ UNCHANGED <<logs, comments, history, now, approvers, reassigned>>
    ELSE IF ~approval_serializer_valid(user, logs[pk])
    THEN /\ response' = [req EXCEPT !.code = 400, !.errors = {"non_field_errors"}]
         /\ UNCHANGED <<logs, comments, history, now, approvers, reassigned>>
    ELSE IF reject_raises(logs[pk], user)
    THEN /\ response' = [req EXCEPT !.code = 400]
         /\ UNCHANGED <<logs, comments, history, now, approvers, reassigned>>
    ELSE /\ logs' = [logs EXCEPT ![pk] = rejected_log(@, user, validated_reason(reason))]
         /\ response' = req
         /\ UNCHANGED <<comments, history, now, approvers, reassigned>>

----------------------------------------------------------------------------
(* GET /action-logs/{pk}/assignment_history/ *)

\* The sequences of ids that list exactly the rows in S once each.
Orderings(S) ==
    {f \in [1..Cardinality(S) -> S] : \A i, j \in 1..Cardinality(S) : f[i] = f[j] => i = j}

order_by_any(S) == Orderings(S)

\* .order_by('-assigned_at'): the order among equal timestamps is the database's.
order_by_desc(S) ==
    {f \in Orderings(S) :
        \A i \in 1..(Cardinality(S) - 1) :
            history[f[i]].assigned_at >= history[f[i + 1]].assigned_at}

\* action_log.assignment_history: the rows whose action_log is this log.
related_history(pk) == {i \in 1..Len(history) : history[i].action_log = pk}

AssignmentHistory(user, pk) ==
    IF pk \notin get_queryset(user)
    THEN /\ response' = Resp("assignment_history", user, pk, 500)
         /\ UNCHANGED <<logs, comments, history, now, approvers, reassigned>>
    ELSE /\ \E rows \in order_by_desc(related_history(pk)) :
                response' = [Resp("assignment_history", user, pk, 200)
                                EXCEPT !.rows = rows]
         /\ UNCHANGED <<logs, comments, history, now, approvers, reassigned>>

----------------------------------------------------------------------------------------------------------------------------------------
(* Request payloads.  Patch is the empty payload; each set below varies    *)
(* the keys one group of handlers branches on.                             *)

Patch ==
    [has_assigned |-> FALSE, assigned_to |-> {}, comment |-> None,
     due_date |-> "absent", status |-> None, rejection_reason |-> NoText,
     department_id |-> None, has_required |-> FALSE]

\* assigned_to: key absent, an empty list, a user, an id of no user
AssignedInputs == {<<FALSE, {}>>, <<TRUE, {}>>, <<TRUE, {"staff_a"}>>, <<TRUE, {BadUser}>>}

CreatePayloads ==
    {[Patch EXCEPT !.department_id = d, !.has_assigned = a[1], !.assigned_to = a[2],
                   !.due_date = due, !.has_required = r] :
        d \in Depts \cup {BadDept, None},
        a \in AssignedInputs \ {<<TRUE, {"staff_a"}>>},
        due \in {"absent", "past", "future"},
        r \in BOOLEAN}

\* A well-formed create of an open log.
PlainCreate(d) ==
    [Patch EXCEPT !.department_id = d, !.has_assigned = TRUE, !.has_required = TRUE]

\* PATCH {"department_id": d}
MovePayloads == {[Patch EXCEPT !.department_id = d] : d \in Depts}

\* comment and due_date, without assigned_to and with it
SideEffectPayloads ==
    {[Patch EXCEPT !.comment = c, !.due_date = due] :
        c \in {None, "", "c"}, due \in {"absent", "past"}}
    \cup
    {[Patch EXCEPT !.has_assigned = TRUE, !.assigned_to = a, !.comment = c,
                   !.due_date = due] :
        a \in {{"staff_a"}, {BadUser}}, c \in {None, "c"}, due \in {"absent", "past"}}

ReassignPayloads ==
    {[Patch EXCEPT !.has_assigned = a[1], !.assigned_to = a[2], !.due_date = due] :
        a \in AssignedInputs \ {<<TRUE, {}>>},
        due \in {"absent", "past"}}

StatusPayloads ==
    {[Patch EXCEPT !.status = st, !.rejection_reason = r] :
        st \in Statuses \cup {None}, r \in {NoText, <<"a">>}}

ReasonInputs == {NoText, <<>>, <<"a">>, <<Blank, "a">>}

----------------------------------------------------------------------------
(* Specifications.  Each draws the requests of one group of handlers from  *)
(* small sets; Spec is the service under all of them.                      *)

(* Scoping: creates of every shape, moves between departments, reads.      *)

NextScope ==
    \/ \E user \in {"staff_a", "root"}, p \in CreatePayloads : Create(user, p)
    \/ \E user \in Users, pk \in 1..MaxLogs, p \in MovePayloads : Update(user, pk, p, TRUE)
    \/ \E user \in Users : List(user)
    \/ \E user \in Users, pk \in 1..MaxLogs : Retrieve(user, pk)

SpecScope == Init /\ [][NextScope]_vars

(* Update side effects: a comment or an assignment-history row. *)

NextUpdate ==
    \/ \E d \in Depts : Create("chief", PlainCreate(d))
    \/ \E pk \in 1..MaxLogs, p \in SideEffectPayloads : Update("staff_a", pk, p, TRUE)

SpecUpdate == Init /\ [][NextUpdate]_vars

(* Assignment history over time, between other requests. *)

NextHistory ==
    \/ \E d \in Depts : Create("chief", PlainCreate(d))
    \/ \E pk \in 1..MaxLogs, p \in ReassignPayloads : Update("staff_a", pk, p, TRUE)
    \/ \E pk \in 1..MaxLogs : CommentsPost("staff_a", pk, "c", FALSE, 0)
    \/ \E pk \in 1..MaxLogs : AssignmentHistory("staff_a", pk)
    \/ Tick

SpecHistory == Init /\ [][NextHistory]_vars

(* The status lifecycle of log 1, beside other logs, under every approval  *)
(* policy over two users.                                                  *)

InitDecide ==
    /\ InitTables
    /\ approvers \in SUBSET {"staff_a", "chief"}

NextDecide ==
    \/ \E d \in Depts : Create("chief", PlainCreate(d))
    \/ \E p \in StatusPayloads, partial \in BOOLEAN : Update("staff_a", 1, p, partial)
    \/ \E user \in {"staff_a", "staff_b", "chief"} : Approve(user, 1)
    \/ \E user \in {"staff_a", "staff_b", "chief"}, reason \in ReasonInputs :
            Reject(user, 1, reason)
    \/ Tick

SpecDecide == InitDecide /\ [][NextDecide]_vars

(* Comment threads. *)

NextComments ==
    \/ \E d \in Depts : Create("chief", PlainCreate(d))
    \/ \E pk \in 1..MaxLogs, text \in {None, "", "c"} :
            \/ CommentsPost("staff_a", pk, text, FALSE, 0)
            \/ \E parent_id \in 0..(MaxRows + 1) :
                    CommentsPost("staff_a", pk, text, TRUE, parent_id)
    \/ \E pk \in 1..MaxLogs : CommentsGet("staff_a", pk)

SpecComments == Init /\ [][NextComments]_vars

(* The whole service: every request of the groups above. *)

Next == NextScope \/ NextUpdate \/ NextHistory \/ NextDecide \/ NextComments

Spec == (InitTables /\ approvers \in SUBSET Users) /\ [][Next]_vars

----------------------------------------------------------------------------
(* Properties.  response is the last request and its Response, so a step   *)
(* whose response' names a handler is a run of that handler; Tick leaves   *)
(* response alone and is told apart by the clock.                          *)

Elevated(user) == role(user) \in {"commissioner", "super_admin"}

Request(op) == response'.op = op /\ now' = now

Visible(user, pk) == pk \in LogIds /\ (Elevated(user) \/ logs[pk].department = department(user))

LastHistory == history'[Len(history')]

LastComment == comments'[Len(comments')]

\* C1: an update request on a visible log whose payload contains assigned_to
\* adds exactly one assignment-history row, for that log and attributed to
\* the requester, and adds no comment, with or without a comment string.
C1_ReassignAddsHistoryOnly ==
    [][(Request("update") /\ response'.had_assigned
            /\ Visible(response'.user, response'.pk))
        => /\ Len(history') = Len(history) + 1
           /\ SubSeq(history', 1, Len(history)) = history
           /\ LastHistory.action_log = response'.pk
           /\ LastHistory.assigned_by = response'.user
           /\ comments' = comments]_vars

C1_Witness ==
    /\ response.op = "update" /\ response.code = 200
    /\ response.had_assigned /\ response.comment = "c"
    /\ Len(history) = 1 /\ history[1].comment = "c" /\ history[1].assigned_by = "staff_a"
    /\ comments = <<>>

\* C2 as stated: an update request on a visible log with a non-empty comment
\* and no assigned_to adds exactly one top-level comment, for that log and by
\* the requester, and no assignment-history row.
C2_Original ==
    [][(Request("update") /\ ~response'.had_assigned /\ Truthy(response'.comment)
            /\ Visible(response'.user, response'.pk))
        => /\ Len(comments') = Len(comments) + 1
           /\ SubSeq(comments', 1, Len(comments)) = comments
           /\ LastComment = [action_log |-> response'.pk, user |-> response'.user,
                              comment |-> response'.comment, parent_comment |-> NoParent]
           /\ history' = history]_vars

\* C2 amended: such a request adds exactly one top-level comment, for that
\* log and by the requester, when the field update succeeds (200), and no
\* comment when validation rejects the field update (400); it never adds an
\* assignment-history row.
C2_CommentOnSuccessfulUpdate ==
    [][(Request("update") /\ ~response'.had_assigned /\ Truthy(response'.comment)
            /\ Visible(response'.user, response'.pk))
        => /\ response'.code \in {200, 400}
           /\ response'.code = 200 =>
                /\ Len(comments') = Len(comments) + 1
                /\ SubSeq(comments', 1, Len(comments)) = comments
                /\ LastComment = [action_log |-> response'.pk, user |-> response'.user,
                                   comment |-> response'.comment,
                                   parent_comment |-> NoParent]
           /\ response'.code = 400 => comments' = comments
           /\ history' = history]_vars

C2_Witness ==
    /\ response.op = "update" /\ response.code = 200
    /\ ~response.had_assigned /\ response.comment = "c" /\ response.user = "staff_a"
    /\ Len(comments) = 1 /\ comments[1].user = "staff_a"
    /\ history = <<>>

\* C10: when the field update of an update request fails, the request has
\* added no assignment-history row and no comment.
C10_FailedUpdateAddsNothing ==
    [][(Request("update") /\ response'.code # 200)
        => history' = history /\ comments' = comments]_vars

\* C3: through list or retrieve, a requester whose role is not commissioner
\* or super_admin never obtains a log of another department, and a
\* commissioner or super_admin obtains every existing log.
C3_DepartmentScoping ==
    /\ response.op = "list" =>
            IF Elevated(response.user)
            THEN response.items = LogIds
            ELSE \A i \in response.items :
                    i \in LogIds /\ logs[i].department = department(response.user)
    /\ response.op = "retrieve" =>
            IF Elevated(response.user)
            THEN response.pk \in LogIds =>
                    response.code = 200 /\ response.items = {response.pk}
            ELSE \A i \in response.items :
                    i \in LogIds /\ logs[i].department = department(response.user)

C3_Witness ==
    /\ response.op = "list" /\ response.user = "staff_a"
    /\ Len(logs) = 2 /\ logs[1].department = "d2" /\ logs[2].department = "d1"
    /\ response.items = {2}

\* C9 as stated: a create request whose department_id references no existing
\* department ends in a validation error on department_id that names the id,
\* and persists nothing.
C9_Original ==
    [][(Request("create") /\ response'.department_id = BadDept)
        => /\ response'.code = 400
           /\ "department_id" \in response'.errors
           /\ response'.named = BadDept
           /\ logs' = logs]_vars

\* C9 amended: such a request ends in a validation error (400) and persists
\* nothing; the error is on department_id and names the id when the rest of
\* the payload passes the serializer's validation, and is the error of that
\* validation otherwise.
C9_UnknownDepartmentRejected ==
    [][(Request("create") /\ response'.department_id = BadDept)
        => /\ response'.code = 400
           /\ logs' = logs
           /\ IF response'.well_formed
              THEN response'.errors = {"department_id"} /\ response'.named = BadDept
              ELSE response'.errors # {} /\ "department_id" \notin response'.errors
                   /\ response'.named = None]_vars

C9_Witness ==
    /\ response.op = "create" /\ response.department_id = BadDept
    /\ response.well_formed
    /\ response.code = 400 /\ response.named = BadDept
    /\ Len(logs) = 1

\* C8: for a log that has handled N update requests carrying assigned_to,
\* between any other requests, assignment_history returns exactly N rows,
\* all of that log, in non-increasing assigned_at order.
C8_HistoryListing ==
    (response.op = "assignment_history" /\ response.code = 200)
    => LET rows == response.rows IN
       /\ Len(rows) = reassigned[response.pk]
       /\ \A i \in 1..Len(rows) :
            rows[i] \in 1..Len(history) /\ history[rows[i]].action_log = response.pk
       /\ \A i, j \in 1..Len(rows) : rows[i] = rows[j] => i = j
       /\ \A i \in 1..(Len(rows) - 1) :
            history[rows[i]].assigned_at >= history[rows[i + 1]].assigned_at

C8_Witness ==
    /\ response.op = "assignment_history" /\ response.code = 200
    /\ response.rows = <<2, 1>>
    /\ history[2].assigned_at > history[1].assigned_at
    /\ reassigned[response.pk] = 2

\* C4: an approve request on an already approved log, or by a requester the
\* authorization check refuses, is answered 403 (refused by the view) or 400
\* (refused by the entity) and leaves status, approved_by and approved_at as
\* they were.
C4_RefusedApproveChangesNothing ==
    [][(Request("approve") /\ Visible(response'.user, response'.pk)
            /\ (logs[response'.pk].status = "approved" \/ response'.user \notin approvers))
        => /\ response'.code = IF response'.user \notin approvers THEN 403 ELSE 400
           /\ logs'[response'.pk].status = logs[response'.pk].status
           /\ logs'[response'.pk].approved_by = logs[response'.pk].approved_by
           /\ logs'[response'.pk].approved_at = logs[response'.pk].approved_at]_vars

C4_Witness ==
    /\ response.op = "approve" /\ response.code = 400
    /\ response.user \in approvers
    /\ response.pk \in LogIds
    /\ logs[response.pk].status = "approved"
    /\ logs[response.pk].approved_by \in approvers \ {response.user}
    /\ logs[response.pk].approved_at < now

Supplied(reason) == IF reason = NoText THEN <<>> ELSE reason

C6_StatusOnlyByDecision ==
    [][\A pk \in LogIds :
        /\ (logs'[pk].status # logs[pk].status /\ logs'[pk].status \in {"approved", "rejected"})
            => response'.op \in {"approve", "reject"}
        /\ (Request("update") /\ logs[pk].status \in {"approved", "rejected"})
            => /\ logs'[pk].status = logs[pk].status
               /\ logs'[pk].rejection_reason = logs[pk].rejection_reason]_vars

ParentCommentOfSameLog ==
    \A i \in 1..Len(comments) :
        comments[i].parent_comment # NoParent
        => /\ comments[i].parent_comment \in 1..Len(comments)
           /\ comments[comments[i].parent_comment].action_log = comments[i].action_log

RefersToCommentOf(pk, parent_id) ==
    parent_id \in 1..Len(comments) /\ comments[parent_id].action_log = pk

\* C7 as stated: a POST to the comments action whose parent_comment_id refers
\* to a comment of a different log, or to no comment, is answered 404 and
\* creates no comment; so every comment with a parent belongs to the log of
\* its parent.
C7_Original ==
    [][/\ (Request("comments_post") /\ Visible(response'.user, response'.pk)
            /\ response'.has_parent
            /\ ~RefersToCommentOf(response'.pk, response'.parent_id))
        => response'.code = 404 /\ comments' = comments
       /\ ParentCommentOfSameLog']_vars

\* C7 amended: a POST to the comments action of a visible log, with non-empty
\* comment text and a non-zero parent_comment_id that refers to a comment of
\* a different log or to no comment, is answered 404 and creates no comment
\* (empty text is answered 400; an id of 0 counts as absent and a top-level
\* comment is created); every comment with a parent belongs to the log of
\* its parent.
C7_ForeignParentRejected ==
    [][/\ (Request("comments_post") /\ Visible(response'.user, response'.pk)
            /\ response'.has_parent
            /\ ~RefersToCommentOf(response'.pk, response'.parent_id))
        => IF ~Truthy(response'.comment)
           THEN response'.code = 400 /\ comments' = comments
           ELSE IF response'.parent_id = 0
           THEN response'.code = 201 /\ Len(comments') = Len(comments) + 1
                /\ LastComment.parent_comment = NoParent
           ELSE response'.code = 404 /\ comments' = comments
       /\ ParentCommentOfSameLog']_vars

C7_Witness ==
    /\ response.op = "comments_post" /\ response.code = 404
    /\ response.comment = "c"
    /\ response.parent_id \in 1..Len(comments)
    /\ comments[response.parent_id].action_log # response.pk
    /\ response.pk \in LogIds

====
